---- MODULE Spec2Model ----
(***************************************************************************)
(* State-machine model of backend/main.py: one scan session, i.e. one run  *)
(* of the asynchronous generator stream_scan_events, together with the     *)
(* filesystem, the retrieval capability (Repo.clone_from) and the analysis *)
(* capability (bedrock_runtime.invoke_model) it talks to.                  *)
(*                                                                         *)
(* Text is modelled as a sequence of atoms (short strings).  An f-string   *)
(* is the concatenation of its pieces, so "s contains t verbatim" is       *)
(* "some atom of s is t".                                                  *)
(***************************************************************************)
EXTENDS Integers, Sequences, FiniteSets, TLC

\* ------------------------------------------------------------------ bounds
\* Largest number of files the cloned tree holds.
MaxFiles == 2

\* ------------------------------------------------------------ small helpers
\* Python's None (for Optional[str] values and for temp_dir).
None == "None"

Contains(text, atom) == \E i \in 1..Len(text) : text[i] = atom

Range(s) == { s[i] : i \in 1..Len(s) }

\* All sequences over S without repetition, of length at most n.
RECURSIVE DistinctSeqs(_, _)
DistinctSeqs(S, n) ==
    IF n = 0 THEN { <<>> }
    ELSE LET shorter == DistinctSeqs(S, n - 1)
         IN  shorter \cup
             { Append(p[1], p[2]) :
                 p \in { q \in shorter \X S :
                           Len(q[1]) = n - 1 /\ q[2] \notin Range(q[1]) } }

\* ------------------------------------------------- construct_authenticated_url
\* A location is a sequence of atoms in which the delimiters urlparse splits
\* on are atoms of their own: <<"https", "://", "github.com", "/o/r.git">>.
SchemeSep == "://"
QuerySep == "?"
FragmentSep == "#"

\* Atoms that are a path (they start with '/').
PathAtoms == { "/o/r.git", "/r.git" }

\* netloc.lower() for the hosts of the model.
Lower(host) ==
    CASE host = "GitHub.com" -> "github.com"
      [] OTHER -> host

\* "github.com" in s  and  "bitbucket.org" in s, for lower-cased hosts: the
\* test is substring containment, so it also holds of a host that merely
\* has the forge's name inside its own.
HasGithub(s) == s \in { "github.com", "www.github.com" }
HasBitbucket(s) == s \in { "bitbucket.org", "bitbucket.org.example.com" }

\* urlparse raises ValueError("Invalid IPv6 URL") when the netloc has a '['
\* without its ']'.
UnbalancedNetlocs == { "[::1" }
UrlError == << "Invalid IPv6 URL" >>

\* The number of leading atoms of r that belong to the path: urlparse ends
\* the path at the first '?' or '#'.
PathLen(r) ==
    CHOOSE n \in 0..Len(r) :
        /\ \A i \in 1..n : r[i] \notin { QuerySep, FragmentSep }
        /\ n = Len(r) \/ r[n + 1] \in { QuerySep, FragmentSep }

\* urllib.parse.urlparse on the atom form: scheme, netloc, path, params,
\* query, fragment; a component that is absent is the empty string "", and
\* the path is kept as its atoms.
UrlparseRaises(u) ==
    Len(u) >= 3 /\ u[2] = SchemeSep /\ u[3] \in UnbalancedNetlocs

urlparse(u) ==
    LET hasScheme == Len(u) >= 2 /\ u[2] = SchemeSep
        scheme    == IF hasScheme THEN u[1] ELSE ""
        rest      == IF hasScheme THEN SubSeq(u, 3, Len(u)) ELSE u
        hasNetloc == hasScheme /\ Len(rest) >= 1
                     /\ rest[1] \notin PathAtoms \cup { QuerySep, FragmentSep }
        netloc    == IF hasNetloc THEN rest[1] ELSE ""
        r2        == IF hasNetloc THEN Tail(rest) ELSE rest
        \* everything up to '?' or '#' is the path
        path      == SubSeq(r2, 1, PathLen(r2))
        r3        == SubSeq(r2, PathLen(r2) + 1, Len(r2))
        hasQuery  == Len(r3) >= 2 /\ r3[1] = QuerySep
        query     == IF hasQuery THEN r3[2] ELSE ""
        r4        == IF hasQuery THEN SubSeq(r3, 3, Len(r3)) ELSE r3
        hasFrag   == Len(r4) >= 2 /\ r4[1] = FragmentSep
        fragment  == IF hasFrag THEN r4[2] ELSE ""
    IN  [ scheme |-> scheme, netloc |-> netloc, path |-> path, params |-> "",
          query |-> query, fragment |-> fragment ]

\* urllib.parse.urlunparse; netloc and path are given as atoms (the credential
\* is one atom of the netloc).
urlunparse(scheme, netloc, path, params, query, fragment) ==
    (IF scheme # "" THEN << scheme, SchemeSep >> ELSE << >>)
    \o netloc
    \o path
    \o (IF params # "" THEN << ";", params >> ELSE << >>)
    \o (IF query # "" THEN << QuerySep, query >> ELSE << >>)
    \o (IF fragment # "" THEN << FragmentSep, fragment >> ELSE << >>)

\* main.py:56-84.
construct_authenticated_url(url, token) ==
    IF token = None \/ token = ""
    THEN url
    ELSE LET parsed_url == urlparse(url)
         IN  IF parsed_url.scheme = "" \/ parsed_url.netloc = ""
             THEN url
             ELSE LET path == IF parsed_url.path # << >>
                                 /\ parsed_url.path[1] \notin PathAtoms
                              THEN << "/" >> \o parsed_url.path
                              ELSE parsed_url.path
                      authenticated_netloc ==
                          IF HasGithub(Lower(parsed_url.netloc))
                          THEN << token, "@", parsed_url.netloc >>
                          ELSE IF HasBitbucket(Lower(parsed_url.netloc))
                          THEN << "x-token-auth:", token, "@", parsed_url.netloc >>
                          ELSE << token, "@", parsed_url.netloc >>
                  IN  urlunparse(parsed_url.scheme, authenticated_netloc, path,
                                 parsed_url.params, parsed_url.query,
                                 parsed_url.fragment)

\* ------------------------------------------------------------------ inputs
\* Request bodies: repository_url and access_token (RepositoryScanRequest).
RepoUrls ==
    { << "https", "://", "github.com", "/o/r.git" >>,
      << "https", "://", "bitbucket.org", "/o/r.git" >>,
      << "github.com", "/o/r.git" >>,
      << "https", "://", "[::1", "/o/r.git" >> }

\* Locations by their parts, for the URL authenticator alone: with and
\* without scheme, host, path, query and fragment.  Without "://" the host
\* name is only the first segment of the path.
Schemes == { "", "https" }
Hosts ==
    { "", "github.com", "GitHub.com", "bitbucket.org", "example.com",
      "bitbucket.org.example.com", "[::1" }
Paths == { "", "/o/r.git" }
Queries == { "", "ref=main" }
Fragments == { "", "readme" }

Location(scheme, host, path, query, fragment) ==
    (IF scheme # "" THEN << scheme, SchemeSep >> ELSE << >>)
    \o (IF host # "" THEN << host >> ELSE << >>)
    \o (IF path # "" THEN << path >> ELSE << >>)
    \o (IF query # "" THEN << QuerySep, query >> ELSE << >>)
    \o (IF fragment # "" THEN << FragmentSep, fragment >> ELSE << >>)

Locations ==
    { Location(s, h, p, q, f) :
        s \in Schemes, h \in Hosts, p \in Paths, q \in Queries, f \in Fragments }

Tokens == { None, "", "tok" }

\* Names mkdtemp can return.
TmpNames == { "/tmp/tmpA", "/tmp/tmpB" }

\* A file name is <<stem, suffix>>, the suffix starting at the last '.' of
\* the name ("" when the name has no '.').
FileNames == { << "a", ".py" >>, << "b", ".js" >>, << "README", ".md" >> }

\* What f.read() returns.
Contents == { "", " \n", "code" }

\* The marker phrase of the classification rule (main.py:159).
Marker == "No vulnerabilities found"

\* Texts the analysis capability answers with.
Responses ==
    { << >>,
      << Marker, " in this file." >>,
      << "SQL injection at line 3" >>,
      << "Review: ", Marker, ", but eval() is used" >> }

\* str(e) of the failures the session can meet.
MkdtempError == << "[Errno 28] No space left on device" >>
ReadError == << "[Errno 13] Permission denied" >>
InvokeError == << "ServiceError: throttled" >>
ParseError == << "JSONDecodeError: Expecting value" >>
WalkError == << "RecursionError: maximum recursion depth exceeded" >>

\* str(e) of a failed Repo.clone_from(url, dir): the retrieval capability
\* is external, and its error text may or may not quote the command line it
\* ran, which holds the location it was given.
CloneErrors(url, dir) ==
    { << "Repository not found" >>,
      << "Cmd('git') failed due to: exit code(128) cmdline: git clone -v " >>
          \o url \o << " ", dir >> }

\* main.py:106, file_name.endswith((...)).
SupportedExt ==
    { ".py", ".js", ".java", ".rb", ".php", ".go", ".ts", ".tsx", ".html", ".css" }

IsCandidate(file_name) == file_name[2] \in SupportedExt

\* ------------------------------------------------------------------- state
VARIABLES
    repo_url,                       \* argument
    access_token,                   \* argument
    authenticated_repo_url,         \* local, main.py:90
    pc,                             \* where the generator is suspended
    events,                         \* everything the generator has yielded
    temp_dir,                       \* local, main.py:88 and 96
    fs,                             \* directories that exist on disk
    tree,                           \* files of the clone, in os.walk order
    todo,                           \* files os.walk has not reached yet
    file,                           \* relative_file_path of the file announced
    vulnerabilities_found_overall,  \* local, main.py:101
    scanned_files_count,            \* local, main.py:102
    interrupted,                    \* a GeneratorExit / CancelledError is pending
    opened,                         \* files the session has opened, in order, with what was read
    analyzed,                       \* files sent to invoke_model, in order
    answers,                        \* texts read from its responses, with their file
    rmtree_calls,                   \* calls of shutil.rmtree so far
    rmtree_raised,                  \* shutil.rmtree raised
    other_pc,                       \* where a second, concurrent session is
    other_dir                       \* temp_dir of the second session

vars ==
    << repo_url, access_token, authenticated_repo_url, pc, events, temp_dir, fs,
       tree, todo, file, vulnerabilities_found_overall, scanned_files_count,
       interrupted, opened, analyzed, answers, rmtree_calls, rmtree_raised,
       other_pc, other_dir >>

\* ------------------------------------------------------------------ events
\* json.dumps({'type': t, 'payload': p}), main.py:93 and the other yields.
Event(t, p) == [ type |-> t, payload |-> p ]

CloningEvent(display_url) ==
    Event("status", << "Cloning repository from " >> \o display_url \o << "..." >>)
ClonedEvent == Event("status", << "Repository cloned successfully." >>)
ProgressEvent(f) == Event("progress", << "Scanning file: ", f[1], f[2] >>)
SkipEvent(f) == Event("info", << "Skipping empty file: ", f[1], f[2] >>)
CleanEvent(f) == Event("info", << "No vulnerabilities found in: ", f[1], f[2] >>)
VulnerabilityEvent(f, analysis_result) ==
    Event("vulnerability", [ file |-> f, analysis |-> analysis_result ])
ErrorEvent(f, e) ==
    Event("error", << "Error processing file ", f[1], f[2], ": " >> \o e)
NoFilesEvent ==
    Event("status", << "No supported files found to scan in the repository." >>)
NoneFoundEvent ==
    Event("status", << "Scan complete. No vulnerabilities found in supported files." >>)
FoundEvent == Event("status", << "Scan complete. Vulnerabilities were found." >>)
CriticalEvent(e) ==
    Event("critical_error", << "An unexpected error occurred during scanning: " >> \o e)
CleanedEvent == Event("status", << "Cleaned up temporary files." >>)
DoneEvent == Event("done", << "Process finished." >>)

\* ------------------------------------------------------------ environment
\* Trees Repo.clone_from can leave in the workspace, as the list of files
\* in the order os.walk visits them.
Trees == DistinctSeqs(FileNames, MaxFiles)

\* str.strip() on the contents of the model.
Strip(content) == IF content \in { "", " \n" } THEN "" ELSE content

\* FreshNames as it would be with one fixed scratch directory for all
\* sessions.
FixedScratchDir(dirs) == { "/tmp/tmpA" }

\* tempfile.mkdtemp(): the name it returns is one that does not exist yet.
FreshNames(dirs) == TmpNames \ dirs

\* tempfile.mkdtemp(): a directory that did not exist is created.
Mkdtemp(dirs, d) == dirs \cup { d }

\* shutil.rmtree(d) when it succeeds.
Rmtree(dirs, d) == dirs \ { d }

\* os.path.exists(d).
Exists(dirs, d) == d \in dirs

\* --------------------------------------------------------------- the session
\* One session, before its generator has run.
SessionInit ==
    /\ access_token \in Tokens
    /\ authenticated_repo_url = << >>
    /\ pc = "start"
    /\ events = << >>
    /\ temp_dir = None
    /\ fs = { }
    /\ tree = << >>
    /\ todo = << >>
    /\ file = << "", "" >>
    /\ vulnerabilities_found_overall = FALSE
    /\ scanned_files_count = 0
    /\ interrupted = FALSE
    /\ opened = << >>
    /\ analyzed = << >>
    /\ answers = << >>
    /\ rmtree_calls = 0
    /\ rmtree_raised = FALSE

\* A single request: there is no second session.
Init ==
    /\ SessionInit
    /\ repo_url \in RepoUrls
    /\ other_pc = "absent"
    /\ other_dir = None

\* main.py:92.
DisplayUrl(url, token) ==
    IF token = None \/ token = "" THEN url ELSE << "provided URL with token" >>

\* main.py:181-185: the outer handler yields critical_error and suspends.
Critical(e) ==
    /\ events' = Append(events, CriticalEvent(e))
    /\ pc' = "critical"

\* main.py:90-94: the first resumption, up to the first yield.  urlparse is
\* called only with a truthy token (main.py:57-60); when it raises, the
\* outer handler takes over before anything was assigned or yielded.
Start ==
    /\ pc = "start"
    /\ IF access_token \notin { None, "" } /\ UrlparseRaises(repo_url)
       THEN /\ Critical(UrlError)
            /\ UNCHANGED authenticated_repo_url
       ELSE /\ authenticated_repo_url' =
                   construct_authenticated_url(repo_url, access_token)
            /\ events' = Append(events,
                                CloningEvent(DisplayUrl(repo_url, access_token)))
            /\ pc' = "cloning"
    /\ UNCHANGED << other_pc, other_dir,
                    repo_url, access_token, temp_dir, fs, tree, todo, file,
                    vulnerabilities_found_overall, scanned_files_count,
                    interrupted, opened, analyzed, answers, rmtree_calls, rmtree_raised >>

\* main.py:96 raises: temp_dir is still None.
MkdtempFails ==
    /\ pc = "cloning"
    /\ Critical(MkdtempError)
    /\ UNCHANGED << other_pc, other_dir,
                    repo_url, access_token, authenticated_repo_url, temp_dir, fs,
                    tree, todo, file, vulnerabilities_found_overall,
                    scanned_files_count, interrupted, opened, analyzed, answers,
                    rmtree_calls, rmtree_raised >>

\* main.py:96-97: the directory is created and Repo.clone_from raises.
CloneFails ==
    /\ pc = "cloning"
    /\ \E d \in FreshNames(fs) :
          /\ temp_dir' = d
          /\ fs' = Mkdtemp(fs, d)
          /\ \E e \in CloneErrors(authenticated_repo_url, d) : Critical(e)
    /\ UNCHANGED << other_pc, other_dir,
                    repo_url, access_token, authenticated_repo_url, tree, todo,
                    file, vulnerabilities_found_overall, scanned_files_count,
                    interrupted, opened, analyzed, answers, rmtree_calls, rmtree_raised >>

\* main.py:96-99: the clone succeeds and 'cloned' is yielded.
CloneSucceeds ==
    /\ pc = "cloning"
    /\ \E d \in FreshNames(fs) :
          /\ temp_dir' = d
          /\ fs' = Mkdtemp(fs, d)
    /\ \E t \in Trees :
          /\ tree' = t
          /\ todo' = t
    /\ events' = Append(events, ClonedEvent)
    /\ pc' = "cloned"
    /\ UNCHANGED << other_pc, other_dir,
                    repo_url, access_token, authenticated_repo_url, file,
                    vulnerabilities_found_overall, scanned_files_count,
                    interrupted, opened, analyzed, answers, rmtree_calls, rmtree_raised >>

\* main.py:104-106: the walk passes over the files the filter rejects.
RECURSIVE NextCandidates(_)
NextCandidates(files) ==
    IF files = << >> THEN << >>
    ELSE IF IsCandidate(Head(files)) THEN files
    ELSE NextCandidates(Tail(files))

\* Inside the try body, suspended where the next thing to run is the loop.
AtLoop == pc \in { "cloned", "walk" }

\* main.py:101-102 run when the generator is resumed after 'cloned'.
FoundAtLoop == IF pc = "cloned" THEN FALSE ELSE vulnerabilities_found_overall
CountAtLoop == IF pc = "cloned" THEN 0 ELSE scanned_files_count

\* Announce as it would be if the walk handed out the last candidate first.
AnnounceFromEnd ==
    /\ AtLoop
    /\ NextCandidates(todo) # << >>
    /\ LET cands == SelectSeq(todo, IsCandidate)
           last  == cands[Len(cands)]
       IN  /\ file' = last
           /\ todo' = SelectSeq(todo, LAMBDA f : f # last)
           /\ events' = Append(events, ProgressEvent(last))
    /\ pc' = "progress"
    /\ vulnerabilities_found_overall' = FoundAtLoop
    /\ scanned_files_count' = CountAtLoop
    /\ UNCHANGED << other_pc, other_dir,
                    repo_url, access_token, authenticated_repo_url, temp_dir, fs,
                    tree, interrupted, opened, analyzed, answers, rmtree_calls,
                    rmtree_raised >>

\* main.py:104-111: the next candidate file is announced.
Announce ==
    /\ AtLoop
    /\ NextCandidates(todo) # << >>
    /\ file' = Head(NextCandidates(todo))
    /\ todo' = Tail(NextCandidates(todo))
    /\ events' = Append(events, ProgressEvent(Head(NextCandidates(todo))))
    /\ pc' = "progress"
    /\ vulnerabilities_found_overall' = FoundAtLoop
    /\ scanned_files_count' = CountAtLoop
    /\ UNCHANGED << other_pc, other_dir,
                    repo_url, access_token, authenticated_repo_url, temp_dir, fs,
                    tree, interrupted, opened, analyzed, answers, rmtree_calls,
                    rmtree_raised >>

\* SummaryEvent with the found flag tested before the counter.
SummaryEventFlagFirst(count, found) ==
    IF ~found THEN NoneFoundEvent
    ELSE IF count = 0 THEN NoFilesEvent
    ELSE FoundEvent

\* main.py:173-178.
SummaryEvent(count, found) ==
    IF count = 0 THEN NoFilesEvent
    ELSE IF ~found THEN NoneFoundEvent
    ELSE FoundEvent

\* Summary as it would be if the workspace were removed before the summary
\* is yielded.
SummaryAfterCleanup ==
    /\ AtLoop
    /\ NextCandidates(todo) = << >>
    /\ todo' = << >>
    /\ fs' = Rmtree(fs, temp_dir)
    /\ rmtree_calls' = rmtree_calls + 1
    /\ events' = Append(events, SummaryEvent(CountAtLoop, FoundAtLoop))
    /\ pc' = "summary"
    /\ vulnerabilities_found_overall' = FoundAtLoop
    /\ scanned_files_count' = CountAtLoop
    /\ UNCHANGED << other_pc, other_dir,
                    repo_url, access_token, authenticated_repo_url, temp_dir,
                    tree, file, interrupted, opened, analyzed, answers,
                    rmtree_raised >>

\* main.py:104-106 and 173-179: the walk ends and the summary is yielded.
Summary ==
    /\ AtLoop
    /\ NextCandidates(todo) = << >>
    /\ todo' = << >>
    /\ events' = Append(events, SummaryEvent(CountAtLoop, FoundAtLoop))
    /\ pc' = "summary"
    /\ vulnerabilities_found_overall' = FoundAtLoop
    /\ scanned_files_count' = CountAtLoop
    /\ UNCHANGED << other_pc, other_dir,
                    repo_url, access_token, authenticated_repo_url, temp_dir, fs,
                    tree, file, interrupted, opened, analyzed, answers, rmtree_calls,
                    rmtree_raised >>

\* TraversalRaises as it would be with the handler inside the loop: the
\* failure is reported and the walk goes on.
TraversalRaisesSwallowed ==
    /\ AtLoop
    /\ events' = Append(events, CriticalEvent(WalkError))
    /\ pc' = "walk"
    /\ vulnerabilities_found_overall' = FoundAtLoop
    /\ scanned_files_count' = CountAtLoop
    /\ UNCHANGED << other_pc, other_dir,
                    repo_url, access_token, authenticated_repo_url, temp_dir, fs,
                    tree, todo, file, interrupted, opened, analyzed, answers,
                    rmtree_calls, rmtree_raised >>

\* main.py:104-110: an exception outside the per-file try (os.walk recursing
\* too deep, say) reaches the outer handler.
TraversalRaises ==
    /\ AtLoop
    /\ Critical(WalkError)
    /\ vulnerabilities_found_overall' = FoundAtLoop
    /\ scanned_files_count' = CountAtLoop
    /\ UNCHANGED << other_pc, other_dir,
                    repo_url, access_token, authenticated_repo_url, temp_dir, fs,
                    tree, todo, file, interrupted, opened, analyzed, answers,
                    rmtree_calls, rmtree_raised >>

\* FileStep without the increment of main.py:112.
FileStepUncounted(evt) ==
    /\ pc = "progress"
    /\ UNCHANGED scanned_files_count
    /\ events' = Append(events, evt)
    /\ pc' = "walk"

\* main.py:112 and the yield that ends the per-file step: every outcome of
\* the step counts the file, yields one event and goes back to the loop.
FileStep(evt) ==
    /\ pc = "progress"
    /\ scanned_files_count' = scanned_files_count + 1
    /\ events' = Append(events, evt)
    /\ pc' = "walk"

\* ReadFails as it would be with the read outside the per-file try block.
ReadFailsPropagates ==
    /\ pc = "progress"
    /\ scanned_files_count' = scanned_files_count + 1
    /\ Critical(ReadError)
    /\ opened' = Append(opened, [ file |-> file, content |-> None ])
    /\ UNCHANGED << other_pc, other_dir,
                    repo_url, access_token, authenticated_repo_url, temp_dir, fs,
                    tree, todo, file, vulnerabilities_found_overall, interrupted,
                    analyzed, answers, rmtree_calls, rmtree_raised >>

\* main.py:115-116 raises, main.py:167-171 reports it.
ReadFails ==
    /\ FileStep(ErrorEvent(file, ReadError))
    /\ opened' = Append(opened, [ file |-> file, content |-> None ])
    /\ UNCHANGED << other_pc, other_dir,
                    repo_url, access_token, authenticated_repo_url, temp_dir, fs,
                    tree, todo, file, vulnerabilities_found_overall, interrupted,
                    analyzed, answers, rmtree_calls, rmtree_raised >>

\* EmptyFile as it would be with a bare 'continue': the file is dropped.
EmptyFileDropped ==
    /\ pc = "progress"
    /\ scanned_files_count' = scanned_files_count + 1
    /\ pc' = "walk"
    /\ \E content \in Contents :
          /\ Strip(content) = ""
          /\ opened' = Append(opened, [ file |-> file, content |-> content ])
    /\ UNCHANGED << other_pc, other_dir,
                    repo_url, access_token, authenticated_repo_url, events,
                    temp_dir, fs, tree, todo, file, vulnerabilities_found_overall,
                    interrupted, analyzed, answers, rmtree_calls, rmtree_raised >>

\* main.py:118-121: nothing but white space in the file.
EmptyFile ==
    /\ \E content \in Contents :
          /\ Strip(content) = ""
          /\ FileStep(SkipEvent(file))
          /\ opened' = Append(opened, [ file |-> file, content |-> content ])
    /\ UNCHANGED << other_pc, other_dir,
                    repo_url, access_token, authenticated_repo_url, temp_dir, fs,
                    tree, todo, file, vulnerabilities_found_overall, interrupted,
                    analyzed, answers, rmtree_calls, rmtree_raised >>

\* InvokeFails as it would be with one retry of the failed call.
InvokeFailsRetried ==
    /\ \E content \in Contents :
          /\ Strip(content) # ""
          /\ FileStep(ErrorEvent(file, InvokeError))
          /\ opened' = Append(opened, [ file |-> file, content |-> content ])
    /\ analyzed' = analyzed \o << file, file >>
    /\ UNCHANGED << other_pc, other_dir,
                    repo_url, access_token, authenticated_repo_url, temp_dir, fs,
                    tree, todo, file, vulnerabilities_found_overall, interrupted,
                    answers, rmtree_calls, rmtree_raised >>

\* main.py:151-154 raises, main.py:167-171 reports it.
InvokeFails ==
    /\ \E content \in Contents :
          /\ Strip(content) # ""
          /\ FileStep(ErrorEvent(file, InvokeError))
          /\ opened' = Append(opened, [ file |-> file, content |-> content ])
    /\ analyzed' = Append(analyzed, file)
    /\ UNCHANGED << other_pc, other_dir,
                    repo_url, access_token, authenticated_repo_url, temp_dir, fs,
                    tree, todo, file, vulnerabilities_found_overall, interrupted,
                    answers, rmtree_calls, rmtree_raised >>

\* main.py:156-157 raises (the body is not JSON, 'content' is an empty
\* list), main.py:167-171 reports it.
ParseFails ==
    /\ \E content \in Contents :
          /\ Strip(content) # ""
          /\ FileStep(ErrorEvent(file, ParseError))
          /\ opened' = Append(opened, [ file |-> file, content |-> content ])
    /\ analyzed' = Append(analyzed, file)
    /\ UNCHANGED << other_pc, other_dir,
                    repo_url, access_token, authenticated_repo_url, temp_dir, fs,
                    tree, todo, file, vulnerabilities_found_overall, interrupted,
                    answers, rmtree_calls, rmtree_raised >>

\* IsVulnerable without the test for the marker phrase.
IsVulnerableAnyText(analysis_result) == analysis_result # << >>

\* main.py:159.
IsVulnerable(analysis_result) ==
    analysis_result # << >> /\ ~Contains(analysis_result, Marker)

\* main.py:159-165: the response is classified and reported.
Classified ==
    /\ \E content \in Contents, analysis_result \in Responses :
          /\ Strip(content) # ""
          /\ answers' = Append(answers, [ file |-> file, text |-> analysis_result ])
          /\ IF IsVulnerable(analysis_result)
             THEN /\ vulnerabilities_found_overall' = TRUE
                  /\ FileStep(VulnerabilityEvent(file, analysis_result))
             ELSE /\ UNCHANGED vulnerabilities_found_overall
                  /\ FileStep(CleanEvent(file))
          /\ opened' = Append(opened, [ file |-> file, content |-> content ])
    /\ analyzed' = Append(analyzed, file)
    /\ UNCHANGED << other_pc, other_dir,
                    repo_url, access_token, authenticated_repo_url, temp_dir, fs,
                    tree, todo, file, interrupted, rmtree_calls, rmtree_raised >>

\* main.py:186-192: the finally block, up to its first yield or to the
\* exception that leaves it.  shutil.rmtree either removes the directory
\* or raises; when it raises nothing after it runs.
Finally ==
    IF temp_dir # None /\ Exists(fs, temp_dir)
    THEN /\ rmtree_calls' = rmtree_calls + 1
         /\ \/ /\ fs' = Rmtree(fs, temp_dir)
               /\ events' = Append(events, CleanedEvent)
               /\ pc' = "cleaned"
               /\ UNCHANGED rmtree_raised
            \/ /\ rmtree_raised' = TRUE
               /\ pc' = "raised"
               /\ UNCHANGED << fs, events >>
    ELSE /\ events' = Append(events, DoneEvent)
         /\ pc' = "done"
         /\ UNCHANGED << fs, rmtree_calls, rmtree_raised >>

\* Cleanup as it would be with the removal at the end of the try body
\* instead of in a finally block: after critical_error nothing is removed.
CleanupOnSuccessOnly ==
    /\ pc \in { "summary", "critical" }
    /\ IF pc = "summary"
       THEN Finally
       ELSE /\ events' = Append(events, DoneEvent)
            /\ pc' = "done"
            /\ UNCHANGED << fs, rmtree_calls, rmtree_raised >>
    /\ UNCHANGED << other_pc, other_dir,
                    repo_url, access_token, authenticated_repo_url, temp_dir,
                    tree, todo, file, vulnerabilities_found_overall,
                    scanned_files_count, interrupted, opened, analyzed, answers >>

\* The generator is resumed after the summary (main.py:179) or after
\* critical_error (main.py:185) and runs into the finally block.
Cleanup ==
    /\ pc \in { "summary", "critical" }
    /\ Finally
    /\ UNCHANGED << other_pc, other_dir,
                    repo_url, access_token, authenticated_repo_url, temp_dir,
                    tree, todo, file, vulnerabilities_found_overall,
                    scanned_files_count, interrupted, opened, analyzed, answers >>

\* main.py:190-192: resumed after 'cleaned up', the generator yields done.
EmitDone ==
    /\ pc = "cleaned"
    /\ events' = Append(events, DoneEvent)
    /\ pc' = "done"
    /\ UNCHANGED << other_pc, other_dir,
                    repo_url, access_token, authenticated_repo_url, temp_dir, fs,
                    tree, todo, file, vulnerabilities_found_overall,
                    scanned_files_count, interrupted, opened, analyzed, answers,
                    rmtree_calls, rmtree_raised >>

\* Resumed after done, the generator ends: normally, or by re-raising the
\* exception that was pending when the finally block was entered.
Finish ==
    /\ pc = "done"
    /\ pc' = IF interrupted THEN "raised" ELSE "finished"
    /\ UNCHANGED << other_pc, other_dir,
                    repo_url, access_token, authenticated_repo_url, events,
                    temp_dir, fs, tree, todo, file, vulnerabilities_found_overall,
                    scanned_files_count, interrupted, opened, analyzed, answers,
                    rmtree_calls, rmtree_raised >>

\* Suspension points of the try body and of the outer handler.
InTry == pc \in { "cloning", "cloned", "walk", "progress", "summary", "critical" }

\* The caller goes away while the generator is suspended in the try body or
\* in the outer handler: GeneratorExit is thrown at the yield (aclose) or
\* CancelledError at the sleep.  Neither is an Exception, so no handler
\* catches it and the finally block runs.
Interrupt ==
    /\ InTry
    /\ interrupted' = TRUE
    /\ Finally
    /\ UNCHANGED << other_pc, other_dir,
                    repo_url, access_token, authenticated_repo_url, temp_dir,
                    tree, todo, file, vulnerabilities_found_overall,
                    scanned_files_count, opened, analyzed, answers >>

\* The same while the generator is suspended inside the finally block
\* (main.py:189-192): the exception leaves the generator at once.
InterruptInFinally ==
    /\ pc \in { "cleaned", "done" }
    /\ interrupted' = TRUE
    /\ pc' = "raised"
    /\ UNCHANGED << other_pc, other_dir,
                    repo_url, access_token, authenticated_repo_url, events,
                    temp_dir, fs, tree, todo, file, vulnerabilities_found_overall,
                    scanned_files_count, opened, analyzed, answers, rmtree_calls,
                    rmtree_raised >>

Next ==
    \/ Start
    \/ MkdtempFails
    \/ CloneFails
    \/ CloneSucceeds
    \/ Announce
    \/ Summary
    \/ TraversalRaises
    \/ ReadFails
    \/ EmptyFile
    \/ InvokeFails
    \/ ParseFails
    \/ Classified
    \/ Cleanup
    \/ EmitDone
    \/ Finish
    \/ Interrupt
    \/ InterruptInFinally

Spec == Init /\ [][Next]_vars

\* ------------------------------------------------------ a second session
\* scan_repository_endpoint (main.py:194-196) starts one generator per
\* request, each with its own locals; on the one event loop their segments
\* between suspension points interleave.  Besides the read-only client the
\* sessions share only the filesystem, so the second session is modelled by
\* what it does to the filesystem.

\* Variables of the first session that the second cannot reach.
session_locals ==
    << repo_url, access_token, authenticated_repo_url, pc, events, temp_dir,
       tree, todo, file, vulnerabilities_found_overall, scanned_files_count,
       interrupted, opened, analyzed, answers, rmtree_calls, rmtree_raised >>

\* main.py:96-99 in the second session: it creates its directory; whether
\* its clone succeeds or fails, it is then suspended holding the directory.
OtherAcquire ==
    /\ other_pc = "cloning"
    /\ \E d \in FreshNames(fs) :
          /\ other_dir' = d
          /\ fs' = Mkdtemp(fs, d)
    /\ other_pc' = "running"
    /\ UNCHANGED session_locals

\* main.py:96 raises in the second session: it has no directory.
OtherMkdtempFails ==
    /\ other_pc = "cloning"
    /\ other_pc' = "running"
    /\ UNCHANGED << other_dir, fs, session_locals >>

\* main.py:186-188 in the second session: its finally block.
OtherCleanup ==
    /\ other_pc = "running"
    /\ other_pc' = "ended"
    /\ IF other_dir # None /\ Exists(fs, other_dir)
       THEN \/ fs' = Rmtree(fs, other_dir)
            \/ UNCHANGED fs
       ELSE UNCHANGED fs
    /\ UNCHANGED << other_dir, session_locals >>

\* Two requests at once.  The repository URL plays no part in how the
\* workspace is handled, so one URL stands for all of them here.
InitConcurrent ==
    /\ SessionInit
    /\ repo_url = << "https", "://", "github.com", "/o/r.git" >>
    /\ other_pc = "cloning"
    /\ other_dir = None

NextConcurrent ==
    \/ Next
    \/ OtherAcquire
    \/ OtherMkdtempFails
    \/ OtherCleanup

SpecConcurrent == InitConcurrent /\ [][NextConcurrent]_vars

\* ---------------------------------------------------- the URL authenticator
\* construct_authenticated_url on its own: every location and token, and the
\* one step of a session that applies it.
InitUrl ==
    /\ SessionInit
    /\ repo_url \in Locations
    /\ other_pc = "absent"
    /\ other_dir = None

NextUrl == Start

SpecUrl == InitUrl /\ [][NextUrl]_vars

\* The generator has ended, by returning or by an exception.
Ended == pc \in { "finished", "raised" }

\* ------------------------------------------------- vocabulary of the claims
LastEvent == events[Len(events)]

CountType(t) == Cardinality({ i \in 1..Len(events) : events[i].type = t })

Terminal == { "info", "vulnerability", "error" }

IsSummary(e) ==
    /\ e.type = "status"
    /\ e.payload \in { NoFilesEvent.payload, NoneFoundEvent.payload,
                       FoundEvent.payload }

SummaryEmitted == \E i \in 1..Len(events) : IsSummary(events[i])

\* The file a progress, info, error or vulnerability event is about.
EventFile(e) ==
    IF e.type = "vulnerability" THEN e.payload.file
    ELSE << e.payload[2], e.payload[3] >>

\* The text of an event's payload, as atoms.
PayloadAtoms(e) ==
    IF e.type = "vulnerability"
    THEN << e.payload.file[1], e.payload.file[2] >> \o e.payload.analysis
    ELSE e.payload

Candidates(files) == SelectSeq(files, IsCandidate)

HasCredential == access_token # None /\ access_token # ""

\* The clone (or mkdtemp) failed: the second event is critical_error.
AcquisitionFailed == Len(events) >= 2 /\ events[2].type = "critical_error"

\* ----------------------------------------------------------------- claims
\* C1: every session that is not cut short by the caller ends with exactly
\* one done event, and that event is the last one of the stream.
C1_DoneOnceAndLast ==
    (Ended /\ ~interrupted) =>
        /\ events # << >>
        /\ LastEvent.type = "done"
        /\ CountType("done") = 1

\* C2: once the generator has ended, the workspace the session created no
\* longer exists on disk.
C2_WorkspaceRemoved ==
    (Ended /\ temp_dir # None) => ~Exists(fs, temp_dir)

\* C3: a credential given in the request appears verbatim in the payload of
\* no event.
C3_NoCredentialInEvents ==
    HasCredential =>
        \A i \in 1..Len(events) : ~Contains(PayloadAtoms(events[i]), access_token)

\* C4: once traversal has run to its end, every progress event is followed
\* at once by exactly one info, vulnerability or error event about the same
\* file, and there is no such event without its progress event.
C4_OneTerminalPerFile ==
    SummaryEmitted =>
        /\ \A i \in 1..Len(events) :
              events[i].type = "progress" =>
                  /\ i < Len(events)
                  /\ events[i + 1].type \in Terminal
                  /\ EventFile(events[i + 1]) = EventFile(events[i])
        /\ \A j \in 1..Len(events) :
              events[j].type \in Terminal =>
                  /\ j > 1
                  /\ events[j - 1].type = "progress"
        /\ CountType("progress") =
              CountType("info") + CountType("vulnerability") + CountType("error")
        /\ CountType("progress") = Len(Candidates(tree))

\* A finished scan of two files, one of which failed and one of which is
\* vulnerable.
C4_Witness ==
    /\ pc = "finished"
    /\ CountType("progress") = 2
    /\ CountType("error") = 1
    /\ CountType("vulnerability") = 1

\* C5: done is the last thing a session emits also when shutil.rmtree
\* raises and when no workspace was ever created.
C5_DoneDespiteCleanupFailure ==
    (Ended /\ ~interrupted /\ (rmtree_raised \/ temp_dir = None)) =>
        /\ events # << >>
        /\ LastEvent.type = "done"

\* C6: once the caller has gone away the generator never runs the try body
\* again (so it opens and analyzes no further file), and when it has ended
\* the workspace it created is no longer on disk.
C6_InterruptReleasesWorkspace ==
    /\ interrupted => pc \in { "cleaned", "done", "raised" }
    /\ (Ended /\ interrupted /\ temp_dir # None) => ~Exists(fs, temp_dir)

\* C7: when acquisition fails the stream is cloning, critical_error with the
\* error's text, 'cleaned up' exactly if a directory had been created, done;
\* no file is opened or analyzed.
C7_AcquisitionFailureStream ==
    (Ended /\ ~interrupted /\ AcquisitionFailed) =>
        /\ \E e \in { MkdtempError } \cup CloneErrors(authenticated_repo_url, temp_dir) :
              events = << CloningEvent(DisplayUrl(repo_url, access_token)),
                          CriticalEvent(e) >>
                       \o (IF temp_dir # None THEN << CleanedEvent >> ELSE << >>)
                       \o << DoneEvent >>
        /\ opened = << >>
        /\ analyzed = << >>

\* The files the progress events announce, in order.
Announced ==
    LET progress == SelectSeq(events, LAMBDA e : e.type = "progress")
    IN  [ i \in 1..Len(progress) |-> EventFile(progress[i]) ]

\* C8 (states): a walk that reached its summary announced every candidate
\* file of the tree, in order, whatever failed on the way, and met no
\* critical_error; after any per-file step the loop can go on.
C8_AllFilesProcessed ==
    /\ SummaryEmitted =>
          /\ Announced = Candidates(tree)
          /\ CountType("critical_error") = 0
    /\ pc = "walk" => (ENABLED Announce \/ ENABLED Summary)

\* C8 (steps): a failed read, a failed call of the analysis capability and
\* a response that cannot be parsed each yield exactly one error event
\* about the file and return to the loop with the rest of the walk intact.
C8_FailureStaysInFileStep ==
    (ReadFails \/ InvokeFails \/ ParseFails) =>
        /\ pc' = "walk"
        /\ todo' = todo
        /\ Len(events') = Len(events) + 1
        /\ SubSeq(events', 1, Len(events)) = events
        /\ events'[Len(events')].type = "error"
        /\ EventFile(events'[Len(events')]) = file

\* C8: per-file fault isolation.
C8_PerFileFaultIsolation ==
    [] C8_AllFilesProcessed /\ [][C8_FailureStaysInFileStep]_vars

\* A finished scan whose first file failed and whose second file was still
\* announced.
C8_Witness ==
    /\ pc = "finished"
    /\ \E i \in 1..Len(events) :
          /\ events[i].type = "error"
          /\ i < Len(events)
          /\ events[i + 1].type = "progress"
    /\ SummaryEmitted

SummaryIndexes == { i \in 1..Len(events) : IsSummary(events[i]) }

\* C9: the found flag is true exactly if a vulnerability event was emitted;
\* a finished walk emitted exactly one summary, after every per-file event,
\* and it is 'no supported files' if the tree has no candidate file, else
\* 'none found' if no vulnerability event was emitted, else 'found'.
C9_SummaryPrecedence ==
    /\ vulnerabilities_found_overall <=> CountType("vulnerability") > 0
    /\ Cardinality(SummaryIndexes) <= 1
    /\ pc = "summary" => IsSummary(LastEvent)
    /\ \A k \in SummaryIndexes :
          /\ \A i \in 1..Len(events) :
                events[i].type \in Terminal \cup { "progress" } => i < k
          /\ events[k].payload =
                (IF Len(Candidates(tree)) = 0 THEN NoFilesEvent
                 ELSE IF CountType("vulnerability") = 0 THEN NoneFoundEvent
                 ELSE FoundEvent).payload

\* A finished scan with a clean file and a vulnerable one, summarised as
\* 'vulnerabilities were found'.
C9_Witness ==
    /\ pc = "finished"
    /\ CountType("info") = 1
    /\ CountType("vulnerability") = 1
    /\ \E k \in SummaryIndexes : events[k].payload = FoundEvent.payload

PerFile == Terminal \cup { "progress" }

IsPrefix(a, b) == Len(a) <= Len(b) /\ SubSeq(b, 1, Len(a)) = a

\* C11: files are handled one at a time and in traversal order: a terminal
\* event directly follows the progress event of its file, between two
\* progress events lies the terminal event of the earlier file, the files
\* are announced in the order of the walk, and 'cloned' comes before every
\* per-file event.
C11_OneFileAtATime ==
    /\ \A j \in 1..Len(events) :
          events[j].type \in Terminal =>
              /\ j > 1
              /\ events[j - 1].type = "progress"
              /\ EventFile(events[j - 1]) = EventFile(events[j])
    /\ \A i, k \in 1..Len(events) :
          (i < k /\ events[i].type = "progress" /\ events[k].type = "progress") =>
              \E j \in (i + 1)..(k - 1) :
                  /\ events[j].type \in Terminal
                  /\ EventFile(events[j]) = EventFile(events[i])
    /\ IsPrefix(Announced, Candidates(tree))
    /\ \A i \in 1..Len(events) :
          events[i].type \in PerFile =>
              /\ i > 2
              /\ events[2].type = "status"
              /\ events[2].payload = ClonedEvent.payload

\* A finished scan of two files that were both reported clean or empty.
C11_Witness ==
    /\ pc = "finished"
    /\ CountType("progress") = 2
    /\ CountType("info") = 2

\* The terminal events about file f.
TerminalsOf(f) ==
    { j \in 1..Len(events) :
        events[j].type \in Terminal /\ EventFile(events[j]) = f }

\* The response a.text for the file a.file was reported clean if clean is
\* true, and else as a vulnerability that carries the file and the text.
ReportedAs(a, clean) ==
    /\ TerminalsOf(a.file) # { }
    /\ \A j \in TerminalsOf(a.file) :
          IF clean
          THEN /\ events[j].type = "info"
               /\ events[j].payload = CleanEvent(a.file).payload
          ELSE /\ events[j].type = "vulnerability"
               /\ events[j].payload = [ file |-> a.file, analysis |-> a.text ]

\* C12 as claimed: a response is reported clean exactly if it contains the
\* marker phrase, and every other response is reported as a vulnerability
\* with the file and the full text.
C12_CleanIffMarker ==
    \A k \in 1..Len(answers) :
        ReportedAs(answers[k], Contains(answers[k].text, Marker))

\* C12 as amended: a response is reported clean exactly if it is empty or
\* contains the marker phrase; every other response is reported as a
\* vulnerability with the file and the full text.
C12_CleanIffMarkerOrEmpty ==
    \A k \in 1..Len(answers) :
        ReportedAs(answers[k],
                   answers[k].text = << >> \/ Contains(answers[k].text, Marker))

\* A finished scan with an empty response, a response that holds the marker
\* inside a longer text, and nothing reported as a vulnerability.
C12_Witness ==
    /\ pc = "finished"
    /\ \E k \in 1..Len(answers) : answers[k].text = << >>
    /\ \E k \in 1..Len(answers) :
          Contains(answers[k].text, Marker) /\ answers[k].text[1] # Marker
    /\ CountType("vulnerability") = 0

IsCleaned(e) == e.type = "status" /\ e.payload = CleanedEvent.payload

\* C13: when the summary is yielded the workspace still exists and
\* shutil.rmtree has not been called; the summary comes before 'cleaned up'
\* and before done, 'cleaned up' is in the stream only after the removal,
\* and it comes before done.
C13_SummaryBeforeCleanup ==
    /\ pc = "summary" =>
          /\ IsSummary(LastEvent)
          /\ rmtree_calls = 0
          /\ Exists(fs, temp_dir)
    /\ \A k \in SummaryIndexes, i \in 1..Len(events) :
          (IsCleaned(events[i]) \/ events[i].type = "done") => k < i
    /\ \A i \in 1..Len(events) :
          IsCleaned(events[i]) =>
              /\ rmtree_calls = 1
              /\ ~Exists(fs, temp_dir)
              /\ \A j \in 1..Len(events) : events[j].type = "done" => i < j

\* A finished scan whose stream holds a summary, 'cleaned up' and done.
C13_Witness ==
    /\ pc = "finished"
    /\ SummaryEmitted
    /\ \E i \in 1..Len(events) : IsCleaned(events[i])
    /\ LastEvent.type = "done"

\* C14 (states): the workspace exists from its creation until
\* shutil.rmtree is called, rmtree is called at most once, and a session
\* that has ended has called it exactly once if it created a workspace (and
\* not at all if it created none).
C14_WorkspaceLifetime ==
    /\ (temp_dir # None /\ rmtree_calls = 0) => Exists(fs, temp_dir)
    /\ temp_dir = None => rmtree_calls = 0
    /\ rmtree_calls <= 1
    /\ rmtree_calls = 1 => (rmtree_raised <=> Exists(fs, temp_dir))
    /\ Ended => rmtree_calls = (IF temp_dir # None THEN 1 ELSE 0)

\* C14 (steps): a directory is created only while the session has none, and
\* it becomes the session's workspace; the workspace is never replaced; a
\* file is opened only while the workspace exists; a directory disappears
\* only in a call of rmtree.
C14_WorkspaceSteps ==
    /\ \A d \in fs' \ fs : temp_dir = None /\ temp_dir' = d
    /\ temp_dir # None => temp_dir' = temp_dir
    /\ opened' # opened => (Exists(fs, temp_dir) /\ Exists(fs', temp_dir'))
    /\ fs \ fs' # { } => (fs \ fs' = { temp_dir } /\ rmtree_calls' = rmtree_calls + 1)

\* C14: the workspace is created at most once, exists until cleanup, is
\* removed at most once, and cleanup runs exactly once per session.
C14_CreatedOnceRemovedOnce ==
    [] C14_WorkspaceLifetime /\ [][C14_WorkspaceSteps]_vars

\* A session that failed to clone, removed its workspace and ended.
C14_Witness ==
    /\ pc = "finished"
    /\ AcquisitionFailed
    /\ temp_dir # None
    /\ rmtree_calls = 1
    /\ ~Exists(fs, temp_dir)

\* C15: under every interleaving of two sessions each has a workspace of
\* its own while both hold one; the workspace of a session exists until that session itself
\* calls rmtree, whatever the other one cleans up; and the counter, the
\* found flag and the summary of a session are those of its own tree and of
\* its own events.
C15_SessionsIsolated ==
    /\ (temp_dir # None /\ rmtree_calls = 0
           /\ other_pc = "running" /\ other_dir # None) => temp_dir # other_dir
    /\ (temp_dir # None /\ rmtree_calls = 0) => Exists(fs, temp_dir)
    /\ (other_pc = "running" /\ other_dir # None) => Exists(fs, other_dir)
    /\ IsPrefix(Announced, Candidates(tree))
    /\ scanned_files_count \in { CountType("progress"), CountType("progress") - 1 }
    /\ vulnerabilities_found_overall <=> CountType("vulnerability") > 0
    /\ \A k \in SummaryIndexes :
          events[k].payload =
              SummaryEvent(Len(Candidates(tree)),
                           CountType("vulnerability") > 0).payload

\* The first session is in the middle of its walk while the second one has
\* already created and removed its own workspace.
C15_Witness ==
    /\ pc = "progress"
    /\ other_pc = "ended"
    /\ other_dir # None
    /\ ~Exists(fs, other_dir)
    /\ Exists(fs, temp_dir)

\* ------------------------------------------------------------------- C16
\* What the host of a location is, by name: forge A is github.com, forge B
\* is bitbucket.org, in any letter case.
IsForgeA(host) == Lower(host) = "github.com"
IsForgeB(host) == Lower(host) = "bitbucket.org"

\* A location that has a scheme and a well-formed host after "://".
HasSchemeAndHost(u) ==
    /\ Len(u) >= 3
    /\ u[2] = SchemeSep
    /\ u[3] \in Hosts \ ({ "" } \cup UnbalancedNetlocs)

EmbeddedCredential(host, token) ==
    IF IsForgeA(host) THEN << token, "@", host >>
    ELSE IF IsForgeB(host) THEN << "x-token-auth:", token, "@", host >>
    ELSE << token, "@", host >>

\* The location with the credential put in front of the host and every
\* other part left where it was.
AuthenticatedForm(u, token) ==
    IF token \in { None, "" } \/ ~HasSchemeAndHost(u)
    THEN u
    ELSE SubSeq(u, 1, 2) \o EmbeddedCredential(u[3], token)
         \o SubSeq(u, 4, Len(u))

\* C16: once construct_authenticated_url has been applied, its result is
\* the input with credential@host (x-token-auth:credential@host for a
\* bitbucket.org host) in place of the host when there is a credential, a
\* scheme and a host, and the input itself otherwise.
C16_AuthenticatedUrl ==
    pc # "start" => authenticated_repo_url = AuthenticatedForm(repo_url, access_token)

\* ------------------------------------------------------------------- C17
\* How often invoke_model was called for the file f.
Invocations(f) == Cardinality({ i \in 1..Len(analyzed) : analyzed[i] = f })

OpenedFiles == [ k \in 1..Len(opened) |-> opened[k].file ]

\* C17: invoke_model is called only for candidate files of the tree and at
\* most once for each; a file whose read failed or whose content is empty or
\* white space is not sent to it (an empty one is reported as skipped), every
\* other file that was read is sent exactly once, failed call or not; the
\* files read are the candidate files in the order of the walk, all of them
\* once the summary is out.
C17_AnalysisOncePerFile ==
    /\ \A f \in Range(analyzed) :
          IsCandidate(f) /\ f \in Range(tree) /\ Invocations(f) = 1
    /\ \A k \in 1..Len(opened) :
          IF opened[k].content = None
          THEN Invocations(opened[k].file) = 0
          ELSE IF Strip(opened[k].content) = ""
          THEN /\ Invocations(opened[k].file) = 0
               /\ \E j \in TerminalsOf(opened[k].file) :
                     events[j] = SkipEvent(opened[k].file)
          ELSE Invocations(opened[k].file) = 1
    /\ Range(analyzed) \subseteq Range(OpenedFiles)
    /\ IsPrefix(OpenedFiles, Candidates(tree))
    /\ SummaryEmitted => OpenedFiles = Candidates(tree)

\* A finished walk in which one file was white space and the call failed
\* for another.
C17_Witness ==
    /\ pc = "finished"
    /\ SummaryEmitted
    /\ \E k \in 1..Len(opened) : opened[k].content = " \n"
    /\ \E j \in 1..Len(events) :
          /\ events[j].type = "error"
          /\ events[j] = ErrorEvent(EventFile(events[j]), InvokeError)
          /\ Invocations(EventFile(events[j])) = 1

\* ------------------------------------------------------------------- C18
CriticalIndexes == { i \in 1..Len(events) : events[i].type = "critical_error" }

\* The session got its repository and then met a failure that the outer
\* handler reported.
FailedAfterAcquisition ==
    /\ Len(events) >= 2
    /\ events[2] = ClonedEvent
    /\ CriticalIndexes # { }

\* C18: a session that failed after its acquisition, outside the per-file
\* handler, and was not interrupted ends with exactly one critical_error
\* followed by 'cleaned up' and done and by nothing else, with its workspace
\* removed and no file left in progress.
C18_SessionFailureStream ==
    (Ended /\ ~interrupted /\ FailedAfterAcquisition) =>
        /\ Cardinality(CriticalIndexes) = 1
        /\ events[Len(events) - 2].type = "critical_error"
        /\ events[Len(events) - 1] = CleanedEvent
        /\ events[Len(events)] = DoneEvent
        /\ ~Exists(fs, temp_dir)
        /\ \A i \in 1..(Len(events) - 3) :
              events[i].type = "progress" => events[i + 1].type \in Terminal

\* ------------------------------------------------------------------- C19
\* C19: a stream never holds more than one event that is a summary or a
\* critical_error; a session that was not interrupted and yielded done
\* holds exactly one; after a critical_error comes no progress, info,
\* vulnerability or error event and no summary.
C19_OneOutcome ==
    /\ Cardinality(SummaryIndexes \cup CriticalIndexes) <= 1
    /\ (~interrupted /\ CountType("done") > 0) =>
          Cardinality(SummaryIndexes \cup CriticalIndexes) = 1
    /\ \A i \in CriticalIndexes : \A j \in (i + 1)..Len(events) :
          events[j].type \notin PerFile /\ ~IsSummary(events[j])

\* A session that processed a file, then failed in the walk, and ended with
\* done.
C19_Witness ==
    /\ pc = "finished"
    /\ CountType("done") = 1
    /\ CriticalIndexes # { }
    /\ CountType("progress") > 0
    /\ SummaryIndexes = { }

\* ------------------------------------------------------------------- C20
Progressed == CountType("progress")

\* The summary of a stream that has one.
SummaryPayloads == { events[k].payload : k \in SummaryIndexes }

C20_CounterState ==
    /\ pc = "progress" => scanned_files_count = Progressed - 1
    /\ pc \in { "walk", "summary" } => scanned_files_count = Progressed
    /\ scanned_files_count \in { Progressed, Progressed - 1 }
    /\ NoFilesEvent.payload \in SummaryPayloads <=>
          (SummaryEmitted /\ Progressed = 0)
    /\ (SummaryEmitted /\ Progressed > 0 /\ CountType("vulnerability") = 0) =>
          SummaryPayloads = { NoneFoundEvent.payload }

C20_CounterStep ==
    /\ scanned_files_count' \in { scanned_files_count, scanned_files_count + 1 }
    /\ (pc = "progress" /\ pc' = "walk") =>
          scanned_files_count' = scanned_files_count + 1
    /\ (Len(events') = Len(events) + 1
           /\ (LastEvent'.type \in Terminal \/ IsSummary(LastEvent'))) =>
          scanned_files_count' = Progressed'

\* C20: the counter never decreases; the step that handles an announced
\* file adds exactly one to it, whatever the outcome; when a per-file
\* terminal event or the summary is yielded it equals the number of
\* progress events so far; the summary is 'no supported files' exactly if
\* there was no progress event, and 'none found' if there were some and no
\* vulnerability event.
C20_CounterTracksProgress == []C20_CounterState /\ [][C20_CounterStep]_vars

\* A finished walk over two candidate files, one skipped as empty and one
\* that failed, with the summary 'none found'.
C20_Witness ==
    /\ pc = "finished"
    /\ scanned_files_count = 2
    /\ CountType("info") = 1
    /\ CountType("error") = 1
    /\ SummaryPayloads = { NoneFoundEvent.payload }

====
